---- MODULE Spec2Model ----
(***************************************************************************)
(* The example applications of wiki/web_development/fast-api.py: the       *)
(* routes each example declares, the parameter and body declarations the   *)
(* framework validates a request against before it calls the route's       *)
(* handler, and the handlers themselves.  A request goes through the steps *)
(* received -> resolved | failed -> returned -> responded; steps of        *)
(* different clients' requests interleave.                                 *)
(***************************************************************************)
EXTENDS Integers, Sequences, FiniteSets, TLC

VARIABLES inflight, log, served, nreq

vars == <<inflight, log, served, nreq>>

\* ------------------------------------------------------------------ bounds
NumClients == 2
MaxRequests == 2
MaxSegLen == 2
SeqRequests == 1

Clients == 1..NumClients

\* ------------------------------------------------------------- JSON values
\* One shape for every JSON / Python value: t is the type, the other fields
\* hold the value of that type.
JNull == [t |-> "null", n |-> 0, s |-> "", b |-> FALSE]
JNum(n) == [t |-> "number", n |-> n, s |-> "", b |-> FALSE]
JStr(s) == [t |-> "string", n |-> 0, s |-> s, b |-> FALSE]
JBool(b) == [t |-> "boolean", n |-> 0, s |-> "", b |-> b]
JArr == [t |-> "array", n |-> 0, s |-> "", b |-> FALSE]

\* An optional value is a sequence of length 0 or 1.
None == <<>>
Some(x) == <<x>>

\* --------------------------------------------------- path parameter parsing
DigitChars == {"0", "1", "2", "3", "4", "5", "6", "7", "8", "9"}

DigitVal(ch) ==
    CASE ch = "0" -> 0 [] ch = "1" -> 1 [] ch = "2" -> 2 [] ch = "3" -> 3
      [] ch = "4" -> 4 [] ch = "5" -> 5 [] ch = "6" -> 6 [] ch = "7" -> 7
      [] ch = "8" -> 8 [] ch = "9" -> 9

RECURSIVE DigitsValue(_)
DigitsValue(s) ==
    IF s = <<>> THEN 0
    ELSE DigitsValue(SubSeq(s, 1, Len(s) - 1)) * 10 + DigitVal(s[Len(s)])

\* item_id: int -- the path segment converted to an integer, or None when it
\* is not an integer literal (optional sign, then one or more digits).
\* (variant: the characters that are no digits are skipped)
ParseIntLenient(seg) ==
    IF seg = <<>> THEN None ELSE Some(DigitsValue(SelectSeq(seg, LAMBDA ch : ch \in DigitChars)))

ParseInt(seg) ==
    LET signed == seg # <<>> /\ seg[1] \in {"-", "+"}
        digits == IF signed THEN Tail(seg) ELSE seg
    IN  IF digits # <<>> /\ \A i \in 1..Len(digits) : digits[i] \in DigitChars
        THEN Some(IF signed /\ seg[1] = "-" THEN 0 - DigitsValue(digits) ELSE DigitsValue(digits))
        ELSE None

\* ------------------------------------------------------ request body models
\* class Item(BaseModel) of the Pydantic example: a field without a default
\* is required.
ItemPydanticFields ==
    << [name |-> "name", type |-> "string", required |-> TRUE],
       [name |-> "price", type |-> "number", required |-> TRUE],
       [name |-> "is_offer", type |-> "boolean", required |-> FALSE] >>

\* class Item(BaseModel) of the Simple API example.
ItemFields ==
    << [name |-> "name", type |-> "string", required |-> TRUE],
       [name |-> "description", type |-> "string", required |-> FALSE],
       [name |-> "price", type |-> "number", required |-> TRUE],
       [name |-> "tax", type |-> "number", required |-> FALSE] >>

FieldNames(fields) == {fields[i].name : i \in 1..Len(fields)}

\* The fields of the model that the body gets wrong: a required field that
\* is missing, or a field that is present with a value of another type.
\* (variant: every field is taken to have a default)
FieldErrorsAllOptional(fields, obj) ==
    {i \in 1..Len(fields) : fields[i].name \in DOMAIN obj /\ obj[fields[i].name].t # fields[i].type}

FieldErrors(fields, obj) ==
    {i \in 1..Len(fields) :
        \/ fields[i].required /\ fields[i].name \notin DOMAIN obj
        \/ fields[i].name \in DOMAIN obj /\ obj[fields[i].name].t # fields[i].type}

\* The model instance of a valid body: a field the body omits has its
\* default, None.
BuildModel(fields, obj) ==
    [k \in FieldNames(fields) |-> IF k \in DOMAIN obj THEN obj[k] ELSE JNull]

\* The body parameter `item: Item`: the instance, or None for a body that is
\* absent or invalid.
ValidateBody(fields, body) ==
    IF body # None /\ FieldErrors(fields, body[1]) = {}
    THEN Some(BuildModel(fields, body[1]))
    ELSE None

\* ------------------------------------------------------------ dependencies
\* async def get_db(): yields the session; the cleanup after the response
\* does nothing.
get_db == JStr("fake_database_session")

LowerScheme(s) ==
    CASE s = "Bearer" -> "bearer" [] s = "BEARER" -> "bearer" [] OTHER -> s

\* oauth2_scheme = OAuth2PasswordBearer(tokenUrl="token"): the token of the
\* request's Authorization header, None when there is no bearer credential.
\* (variant: the scheme is returned in place of the credential)
oauth2_schemeWrongPart(req) ==
    IF req.auth # None /\ LowerScheme(req.auth[1].scheme) = "bearer"
    THEN Some(req.auth[1].scheme)
    ELSE None

oauth2_scheme(req) ==
    IF req.auth # None /\ LowerScheme(req.auth[1].scheme) = "bearer"
    THEN Some(req.auth[1].param)
    ELSE None

\* ------------------------------------------------------------------ routes
\* The routes of each example, in the order the decorators register them.
\* A route with param matches any non-empty segment ({item_id}); the others
\* match their literal tail.
Routes(app) ==
    CASE app = "validation" ->
           << [method |-> "GET", head |-> "items", param |-> TRUE, tail |-> <<>>, endpoint |-> "read_item"] >>
      [] app = "async" ->
           << [method |-> "GET", head |-> "items", param |-> TRUE, tail |-> <<>>, endpoint |-> "read_item_async"] >>
      [] app = "pydantic" ->
           << [method |-> "POST", head |-> "items", param |-> FALSE, tail |-> <<>>, endpoint |-> "create_item_pydantic"] >>
      [] app = "di" ->
           << [method |-> "GET", head |-> "users", param |-> FALSE, tail |-> <<>>, endpoint |-> "read_users"] >>
      [] app = "security" ->
           << [method |-> "GET", head |-> "users", param |-> FALSE, tail |-> <<"m", "e">>, endpoint |-> "read_users_me"] >>
      [] app = "simple" ->
           << [method |-> "POST", head |-> "items", param |-> FALSE, tail |-> <<>>, endpoint |-> "create_item"],
              [method |-> "GET", head |-> "items", param |-> TRUE, tail |-> <<>>, endpoint |-> "read_item"] >>

PathMatches(route, req) ==
    /\ route.head = req.head
    /\ IF route.param THEN req.tail # <<>> ELSE req.tail = route.tail

\* The first route whose path and method match; 405 when only paths match,
\* 404 when nothing does.
Dispatch(req) ==
    LET rs == Routes(req.app)
        full == {i \in 1..Len(rs) : PathMatches(rs[i], req) /\ rs[i].method = req.method}
        partial == {i \in 1..Len(rs) : PathMatches(rs[i], req)}
    IN  IF full # {}
        THEN [status |-> 200, endpoint |-> rs[CHOOSE i \in full : \A j \in full : i <= j].endpoint]
        ELSE [status |-> IF partial # {} THEN 405 ELSE 404, endpoint |-> ""]

ErrorResponse(status) ==
    [status |-> status,
     body |-> [detail |-> JStr(CASE status = 422 -> "Unprocessable Entity"
                                 [] status = 401 -> "Not authenticated"
                                 [] status = 405 -> "Method Not Allowed"
                                 [] OTHER -> "Not Found")]]

\* The query parameter q: str = None.
QueryParam(req) == IF req.q = None THEN JNull ELSE JStr(req.q[1])

\* The arguments the framework builds for the endpoint from the request, or
\* the error response it sends instead of calling the handler.
Resolution(req) ==
    LET d == Dispatch(req)
        ok(args) == [args |-> Some(args), resp |-> None]
        err(status) == [args |-> None, resp |-> Some(ErrorResponse(status))]
    IN  CASE d.status # 200 -> err(d.status)
          [] d.endpoint = "read_item" ->
               LET id == ParseInt(req.tail)
               IN  IF id = None THEN err(422)
                   ELSE ok([item_id |-> JNum(id[1]), q |-> QueryParam(req)])
          [] d.endpoint = "read_item_async" ->
               LET id == ParseInt(req.tail)
               IN  IF id = None THEN err(422) ELSE ok([item_id |-> JNum(id[1])])
          [] d.endpoint = "create_item_pydantic" ->
               LET item == ValidateBody(ItemPydanticFields, req.body)
               IN  IF item = None THEN err(422) ELSE ok([item |-> item[1]])
          [] d.endpoint = "create_item" ->
               LET item == ValidateBody(ItemFields, req.body)
               IN  IF item = None THEN err(422) ELSE ok([item |-> item[1]])
          [] d.endpoint = "read_users" -> ok([db |-> get_db])
          [] d.endpoint = "read_users_me" ->
               LET token == oauth2_scheme(req)
               IN  IF token = None THEN err(401) ELSE ok([token |-> JStr(token[1])])

\* ---------------------------------------------------------------- handlers
\* Each handler is its return expression; the framework sends it with
\* status 200.
read_item(item_id, q) == [item_id |-> item_id, q |-> q]

read_item_async(item_id) == [item_id |-> item_id]

create_item_pydantic(item) == item

\* `x or 0`: x unless x is None or zero.
OrZero(x) == IF x.t = "null" \/ (x.t = "number" /\ x.n = 0) THEN 0 ELSE x.n

\* (variant: the tax is left out of the sum)
create_itemNoTax(item) ==
    [name |-> item["name"], price_with_tax |-> JNum(item["price"].n)]

create_item(item) ==
    [name |-> item["name"],
     price_with_tax |-> JNum(item["price"].n + OrZero(item["tax"]))]

\* (variant: the session is kept between requests and goes stale)
read_usersStale(db) == [db |-> IF served = 0 THEN db ELSE JStr("stale_session")]

read_users(db) == [db |-> db]

read_users_me(token) == [token |-> token]

\* ------------------------------------------------------------------- state
\* inflight[c]: the request of client c that the server is handling, if any.
\* log: the completed exchanges.  served: the number of requests answered
\* since the process started.  nreq: the requests received so far.
\* (variant: one request at a time)
IdleServer(c) == \A d \in Clients : inflight[d] = None

Idle(c) == inflight[c] = None

AtStage(c, stage) == inflight[c] # None /\ inflight[c][1].stage = stage

Init ==
    /\ inflight = [c \in Clients |-> None]
    /\ log = {}
    /\ served = 0
    /\ nreq = 0

Update(c, rec) == inflight' = [inflight EXCEPT ![c] = Some(rec)]

\* The server accepts a request of client c; after names the clients whose
\* requests it is handling already.
Receive(c, req, cap) ==
    /\ Idle(c)
    /\ nreq < cap
    /\ Update(c, [req |-> req, stage |-> "received", endpoint |-> "", args |-> None,
                  resp |-> None, called |-> None,
                  after |-> {d \in Clients : ~Idle(d)}, overtaken |-> FALSE])
    /\ nreq' = nreq + 1
    /\ UNCHANGED <<log, served>>

\* The framework routes the request, converts and validates its parameters
\* and resolves its dependencies.
Resolve(c) ==
    /\ AtStage(c, "received")
    /\ LET cur == inflight[c][1]
           res == Resolution(cur.req)
       IN  Update(c, [cur EXCEPT !.stage = IF res.args = None THEN "failed" ELSE "resolved",
                                 !.endpoint = Dispatch(cur.req).endpoint,
                                 !.args = res.args,
                                 !.resp = res.resp])
    /\ UNCHANGED <<log, served, nreq>>

\* The handler of a resolved request runs to its return statement.
Return(c, body) ==
    LET cur == inflight[c][1]
    IN  /\ Update(c, [cur EXCEPT !.stage = "returned",
                                 !.resp = Some([status |-> 200, body |-> body]),
                                 !.called = cur.args])
        /\ UNCHANGED <<log, served, nreq>>

Resolved(c, endpoint) == AtStage(c, "resolved") /\ inflight[c][1].endpoint = endpoint

Args(c) == inflight[c][1].args[1]

CallReadItem(c) ==
    /\ Resolved(c, "read_item")
    /\ Return(c, read_item(Args(c).item_id, Args(c).q))

CallReadItemAsync(c) ==
    /\ Resolved(c, "read_item_async")
    /\ Return(c, read_item_async(Args(c).item_id))

CallCreateItemPydantic(c) ==
    /\ Resolved(c, "create_item_pydantic")
    /\ Return(c, create_item_pydantic(Args(c).item))

CallCreateItem(c) ==
    /\ Resolved(c, "create_item")
    /\ Return(c, create_item(Args(c).item))

CallReadUsers(c) ==
    /\ Resolved(c, "read_users")
    /\ Return(c, read_users(Args(c).db))

CallReadUsersMe(c) ==
    /\ Resolved(c, "read_users_me")
    /\ Return(c, read_users_me(Args(c).token))

\* The response is sent and the exchange is over.  A request that was
\* received earlier and is still being handled has been overtaken.
Respond(c) ==
    /\ AtStage(c, "failed") \/ AtStage(c, "returned")
    /\ LET cur == inflight[c][1]
       IN  /\ log' = log \cup {[req |-> cur.req, resp |-> cur.resp[1],
                                called |-> cur.called, prior |-> served]}
           /\ served' = served + 1
           /\ inflight' = [d \in Clients |->
                 IF d = c THEN None
                 ELSE IF inflight[d] = None THEN None
                 ELSE Some([inflight[d][1] EXCEPT
                              !.after = @ \ {c},
                              !.overtaken = @ \/ d \in cur.after])]
    /\ UNCHANGED nreq

\* uvicorn app:app --reload: the process starts again; the requests it was
\* handling are dropped.
Restart ==
    /\ served # 0 \/ \E c \in Clients : ~Idle(c)
    /\ inflight' = [c \in Clients |-> None]
    /\ served' = 0
    /\ UNCHANGED <<log, nreq>>

\* ---------------------------------------------------------------- requests
Request(app, method, head, tail, q, auth, body) ==
    [app |-> app, method |-> method, head |-> head, tail |-> tail,
     q |-> q, auth |-> auth, body |-> body]

Bearer(scheme, param) == Some([scheme |-> scheme, param |-> param])

\* The requests of the concurrent specification.
Requests ==
    { Request("validation", "GET", "items", <<"7">>, Some("a"), None, None),
      Request("async", "GET", "items", <<"7">>, None, None, None),
      Request("async", "GET", "items", <<"x">>, None, None, None),
      Request("pydantic", "POST", "items", <<>>, None, None,
              Some([name |-> JStr("a"), price |-> JNum(1)])),
      Request("di", "GET", "users", <<>>, None, None, None),
      Request("security", "GET", "users", <<"m", "e">>, None, Bearer("Bearer", "t1"), None),
      Request("security", "GET", "users", <<"m", "e">>, None, Bearer("Bearer", "t2"), None),
      Request("security", "GET", "users", <<"m", "e">>, None, None, None),
      Request("simple", "POST", "items", <<>>, None, None,
              Some([name |-> JStr("a"), price |-> JNum(1), tax |-> JNum(1)])),
      Request("simple", "GET", "items", <<"7">>, None, None, None) }

Step(c) ==
    \/ Resolve(c)
    \/ CallReadItem(c)
    \/ CallReadItemAsync(c)
    \/ CallCreateItemPydantic(c)
    \/ CallCreateItem(c)
    \/ CallReadUsers(c)
    \/ CallReadUsersMe(c)
    \/ Respond(c)

Next ==
    \/ \E c \in Clients : \E req \in Requests : Receive(c, req, MaxRequests)
    \/ \E c \in Clients : Step(c)
    \/ Restart

Spec == Init /\ [][Next]_vars

\* ------------------------------------------------- one request at a time
\* The requests of the sequential specification: every path segment up to
\* MaxSegLen characters, and every body that gives each field of the model
\* a value of the declared type, a value of another type, or no value.
SegChars == {"0", "7", "-", "x"}

Segments == UNION {[1..n -> SegChars] : n \in 0..MaxSegLen}

Absent == [t |-> "absent", n |-> 0, s |-> "", b |-> FALSE]

\* The JSON object that has the keys to which choice gives a value.
Object(choice) == [k \in {k \in DOMAIN choice : choice[k] # Absent} |-> choice[k]]

ItemBodies ==
    {Object(ch) : ch \in [name : {Absent, JStr("a"), JArr},
                          description : {Absent, JStr("d")},
                          price : {Absent, JNum(1), JNum(2), JStr("a")},
                          tax : {Absent, JNum(0), JNum(1), JStr("a")}]}

ItemPydanticBodies ==
    {Object(ch) : ch \in [name : {Absent, JStr("a"), JArr},
                          price : {Absent, JNum(1), JStr("a")},
                          is_offer : {Absent, JBool(TRUE), JStr("a")}]}

WideRequests ==
    {Request(app, "GET", "items", seg, q, None, None) :
        app \in {"validation", "simple"}, seg \in Segments, q \in {None, Some("a")}}
    \cup {Request("async", "GET", "items", seg, None, None, None) : seg \in Segments}
    \cup {Request("simple", "POST", "items", <<>>, None, None, Some(b)) : b \in ItemBodies}
    \cup {Request("pydantic", "POST", "items", <<>>, None, None, Some(b)) : b \in ItemPydanticBodies}
    \cup {Request(app, "POST", "items", <<>>, None, None, None) : app \in {"simple", "pydantic"}}
    \cup {Request("di", "GET", "users", <<>>, None, None, None)}
    \cup {Request("security", "GET", "users", <<"m", "e">>, None, auth, None) :
            auth \in {None, Bearer("Bearer", "t1"), Bearer("bearer", "t2"),
                      Bearer("Basic", "t1"), Bearer("Bearer", "")}}

NextSeq ==
    \/ \E req \in WideRequests : Receive(1, req, SeqRequests)
    \/ Step(1)

SeqSpec == Init /\ [][NextSeq]_vars

\* ================================================================== claims
IsItemGet(req) == req.method = "GET" /\ req.head = "items" /\ req.tail # <<>>

IsItemPost(req) == req.method = "POST" /\ req.head = "items" /\ req.tail = <<>>

\* What the text of a segment says, read off the text itself: an integer
\* literal is an optional sign and then digits only, and its value is the
\* sum of its digits weighted by their place.
Unsigned(seg) == IF seg[1] \in {"+", "-"} THEN SubSeq(seg, 2, Len(seg)) ELSE seg

SegIsInteger(seg) ==
    /\ Len(Unsigned(seg)) > 0
    /\ {Unsigned(seg)[i] : i \in 1..Len(Unsigned(seg))} \subseteq
         {"0", "1", "2", "3", "4", "5", "6", "7", "8", "9"}

RECURSIVE Pow10(_)
Pow10(k) == IF k = 0 THEN 1 ELSE 10 * Pow10(k - 1)

RECURSIVE PlaceSum(_)
PlaceSum(u) == IF u = <<>> THEN 0 ELSE DigitVal(Head(u)) * Pow10(Len(u) - 1) + PlaceSum(Tail(u))

SegValue(seg) == IF seg[1] = "-" THEN 0 - PlaceSum(Unsigned(seg)) ELSE PlaceSum(Unsigned(seg))

\* The requests being handled, in the shape of the completed exchanges.
Handling == {inflight[c][1] : c \in {c \in Clients : inflight[c] # None}}

\* C1: a GET request to /items/{item_id} whose item_id segment is not an
\* integer is answered with a validation error and its handler is never
\* run; when the segment is an integer the handler is run with that integer.
C1_PathParameterValidated ==
    /\ \A e \in log : IsItemGet(e.req) =>
          IF SegIsInteger(e.req.tail)
          THEN /\ e.called # None
               /\ e.called[1].item_id = JNum(SegValue(e.req.tail))
          ELSE e.called = None /\ e.resp.status = 422
    /\ \A h \in Handling : IsItemGet(h.req) /\ ~SegIsInteger(h.req.tail) =>
          h.called = None /\ h.stage \in {"received", "failed"}

\* A segment that mixes digits with other characters was rejected.
C1_Witness ==
    \E e \in log :
        /\ IsItemGet(e.req)
        /\ ~SegIsInteger(e.req.tail)
        /\ \E i \in 1..Len(e.req.tail) : e.req.tail[i] \in DigitChars
        /\ e.resp.status = 422
        /\ e.called = None

\* The type each field of the two Item models is declared with.
DeclaredType(k) ==
    CASE k = "name" -> "string" [] k = "description" -> "string"
      [] k = "price" -> "number" [] k = "tax" -> "number" [] k = "is_offer" -> "boolean"

ModelKeys(app) ==
    IF app = "simple" THEN {"name", "description", "price", "tax"}
    ELSE {"name", "price", "is_offer"}

\* C2: a POST to /items/ whose body lacks name or price, or gives a field of
\* the model a value of the wrong type, is answered with an error and
\* create_item is not run; a body with name and price of the right types and
\* none of the optional fields is accepted and create_item is run.
C2_BodyValidated ==
    \A e \in log : IsItemPost(e.req) =>
        LET lacks == e.req.body = None \/ ~({"name", "price"} \subseteq DOMAIN e.req.body[1])
            wrong == e.req.body # None /\
                     \E k \in DOMAIN e.req.body[1] \cap ModelKeys(e.req.app) :
                         e.req.body[1][k].t # DeclaredType(k)
        IN  /\ lacks \/ wrong => e.resp.status >= 400 /\ e.called = None
            /\ ~lacks /\ ~wrong /\ DOMAIN e.req.body[1] = {"name", "price"} =>
                 /\ e.resp.status = 200
                 /\ e.called # None
                 /\ e.called[1].item["name"] = e.req.body[1]["name"]
                 /\ e.called[1].item["price"] = e.req.body[1]["price"]

\* A body with only name and price was accepted by the Simple API example.
C2_Witness ==
    \E e \in log :
        /\ IsItemPost(e.req)
        /\ e.req.app = "simple"
        /\ e.req.body # None
        /\ DOMAIN e.req.body[1] = {"name", "price"}
        /\ e.called # None
        /\ e.called[1].item["tax"] = JNull

\* C3: in the Simple API example create_item returns exactly the keys name
\* and price_with_tax: name is item.name, and price_with_tax is item.price +
\* item.tax when tax is given and item.price when tax is None or zero.
C3_PriceWithTax ==
    \A e \in log : e.req.app = "simple" /\ IsItemPost(e.req) /\ e.called # None =>
        LET item == e.called[1].item
        IN  /\ DOMAIN e.resp.body = {"name", "price_with_tax"}
            /\ e.resp.body["name"] = item["name"]
            /\ e.resp.body["price_with_tax"] =
                 IF item["tax"] = JNull \/ item["tax"] = JNum(0)
                 THEN item["price"]
                 ELSE JNum(item["price"].n + item["tax"].n)

\* An item with a tax that is not zero got the sum.
C3_Witness ==
    \E e \in log :
        /\ e.req.app = "simple" /\ IsItemPost(e.req) /\ e.called # None
        /\ e.called[1].item["tax"].t = "number"
        /\ e.called[1].item["tax"].n > 0
        /\ e.resp.body["price_with_tax"].n = e.called[1].item["price"].n + e.called[1].item["tax"].n

ReceiveAny(c) == \E req \in Requests : Receive(c, req, MaxRequests)

====
